---- MODULE Spec2Model ----
(***************************************************************************)
(* State machine of the movie-code bot (src/bot.py).                       *)
(*                                                                         *)
(* Strings are sequences of one-character strings, so that str.strip()     *)
(* and str.upper() are computed, never the identity.  Every handler is cut at *)
(* its await points: the synchronous code between two awaits is one        *)
(* action, and handlers of different updates interleave at the awaits.     *)
(* The outcome of every external call (membership lookup, send, edit,      *)
(* file write) is chosen by the environment.                               *)
(***************************************************************************)
EXTENDS Integers, Sequences, FiniteSets, Bags, TLC

\* ------------------------------------------------------------------ bounds

\* Handlers that may be suspended at an await at the same time.
MaxTasks == 1

\* ------------------------------------------------------------ configuration

ADMIN_ID == 1

\* Telegram identities that send updates: the administrator and one other.
Users == {ADMIN_ID, 2}

\* The values REQUIRED_CHANNELS may have been configured with.
ChannelConfigs == { <<>>, <<"-1001", "@chan">> }

\* ------------------------------------------------------------------ strings

\* Python None; only its falsiness is ever tested by the handlers.
None == <<>>

Truthy(x) == x # None

IsSpace(ch) == ch = " "

UpperChar(ch) == CASE ch = "a" -> "A"
                   [] ch = "b" -> "B"
                   [] OTHER -> ch

RECURSIVE LStrip(_)
LStrip(s) == IF s # <<>> /\ IsSpace(Head(s)) THEN LStrip(Tail(s)) ELSE s

RECURSIVE RStrip(_)
RStrip(s) == IF s # <<>> /\ IsSpace(s[Len(s)])
             THEN RStrip(SubSeq(s, 1, Len(s) - 1))
             ELSE s

\* str.strip()
strip(s) == RStrip(LStrip(s))

\* str.upper()
upper(s) == [i \in 1..Len(s) |-> UpperChar(s[i])]

\* The text of an incoming message; Telegram delivers no empty text.
Texts == { <<"a">>, <<" ", "a">> }

\* --------------------------------------------------------------- dictionaries

\* d.get(k)
Get(d, k) == IF k \in DOMAIN d THEN d[k] ELSE None

\* d[k] = v
Put(d, k, v) == [x \in (DOMAIN d) \cup {k} |-> IF x = k THEN v ELSE d[x]]

\* d.pop(k, None), the dictionary that is left
Pop(d, k) == [x \in (DOMAIN d) \ {k} |-> d[x]]

EmptyDict == <<>>

\* ------------------------------------------------------------- movie store

DefaultMovies == (<<"A">> :> <<"F">>) @@ (<<"B">> :> <<"N">>) @@ (<<"C">> :> <<"M">>)

\* movies.json: absent, unreadable, or a JSON object of raw keys to values.
NoFile == [kind |-> "missing", data |-> EmptyDict]
BadFile == [kind |-> "corrupt", data |-> EmptyDict]
JsonFile(d) == [kind |-> "json", data |-> d]

\* The snapshots the process may find when it starts.
Snapshots == { NoFile, JsonFile((<<"a">> :> <<"M">>)) }

\* Lines 43-56 with the snapshot's entries laid over the defaults.
load_movies_Merged(f) ==
    IF f.kind = "json"
    THEN [K \in {upper(k) : k \in DOMAIN f.data} |->
             f.data[CHOOSE k \in DOMAIN f.data : upper(k) = K]] @@ DefaultMovies
    ELSE DefaultMovies

load_movies(f) ==
    IF f.kind = "json"
    THEN [K \in {upper(k) : k \in DOMAIN f.data} |->
             f.data[CHOOSE k \in DOMAIN f.data : upper(k) = K]]
    ELSE DefaultMovies

\* What the write of line 61-62 can do: succeed, or raise after open(..., "w")
\* has truncated the file.
SaveOutcomes == {"ok", "failed"}

\* Lines 59-64 writing nothing at all.
save_movies_Never(f, movies, outcome) == f

save_movies(f, movies, outcome) ==
    IF outcome = "ok" THEN JsonFile(movies) ELSE BadFile

\* -------------------------------------------------------------------- state

VARIABLES
    REQUIRED_CHANNELS,  \* configured channels, read once at start
    file,               \* movies.json on disk
    MOVIES,             \* code -> title
    PENDING_CODES,      \* user -> code withheld until the user subscribes
    ADMIN_STATES,       \* user -> step of the administrator's dialogue
    ADMIN_DATA,         \* user -> code captured by the add dialogue
    READY_USERS,        \* users who pressed the activation button
    tasks,              \* bag of the handlers suspended at an await
    last                \* what the most recent step of a handler did

vars == <<REQUIRED_CHANNELS, file, MOVIES, PENDING_CODES, ADMIN_STATES,
          ADMIN_DATA, READY_USERS, tasks, last>>

session == <<PENDING_CODES, ADMIN_STATES, ADMIN_DATA, READY_USERS>>

store == <<MOVIES, file>>

\* A handler of user u suspended at the await pc, with its local variables.
Suspended(h, u, pc, code, title, ch) ==
    [h |-> h, u |-> u, pc |-> pc, code |-> code, title |-> title, ch |-> ch]

Waiting == BagToSet(tasks)

\* One more handler may be suspended.
CanSuspend == BagCardinality(tasks) < MaxTasks

Suspend(tk) == tasks (+) SetToBag({tk})

Resume(tk) == tasks (-) SetToBag({tk})

\* The record of one step of handler h for user u: the update it began with
\* (first, text), the message it sent (reply, code, title), the membership
\* lookup it issued (asked) or got answered (got), what is_user_subscribed
\* returned (subscribed), whether it wrote the snapshot (saved), whether an
\* exception ended it (raised) and whether the handler is over (done).
Seen(h, u) ==
    [h |-> h, u |-> u, text |-> None, first |-> FALSE, reply |-> "",
     code |-> None, title |-> None, asked |-> "", got |-> "",
     subscribed |-> "", saved |-> "", raised |-> FALSE, done |-> FALSE]

Began(h, u) == [Seen(h, u) EXCEPT !.first = TRUE]

Init ==
    /\ REQUIRED_CHANNELS \in ChannelConfigs
    /\ file \in Snapshots
    /\ MOVIES = load_movies(file)
    /\ PENDING_CODES = EmptyDict
    /\ ADMIN_STATES = EmptyDict
    /\ ADMIN_DATA = EmptyDict
    /\ READY_USERS = {}
    /\ tasks = EmptyBag
    /\ last = Seen("init", 0)

\* ------------------------------------------------------- commands (175-193)

\* Lines 176-183 with the activation of line 204 done by the command as well.
cmd_start_Activates(u) ==
    /\ READY_USERS' = READY_USERS \cup {u}
    /\ last' = [Began("cmd_start", u) EXCEPT !.reply = "greeting", !.done = TRUE]
    /\ UNCHANGED <<REQUIRED_CHANNELS, PENDING_CODES, ADMIN_STATES, ADMIN_DATA, store, tasks>>

cmd_start(u) ==
    /\ last' = [Began("cmd_start", u) EXCEPT !.reply = "greeting", !.done = TRUE]
    /\ UNCHANGED <<REQUIRED_CHANNELS, session, store, tasks>>

\* The access test of lines 189, 248, 264, 289 left out.
IsAdmin_Anybody(u) == TRUE

\* Lines 189, 248, 264, 289.
IsAdmin(u) == u = ADMIN_ID

admin_panel(u) ==
    /\ last' = [Began("admin_panel", u) EXCEPT
                   !.reply = IF IsAdmin(u) THEN "admin_menu" ELSE "no_access",
                   !.done = TRUE]
    /\ UNCHANGED <<REQUIRED_CHANNELS, session, store, tasks>>

\* ------------------------------------------------- activation button (200-208)

callback_user_start(u) ==
    /\ READY_USERS' = READY_USERS \cup {u}
    /\ last' = [Began("user_start", u) EXCEPT !.reply = "activated", !.done = TRUE]
    /\ UNCHANGED <<REQUIRED_CHANNELS, PENDING_CODES, ADMIN_STATES, ADMIN_DATA, store, tasks>>

\* ---------------------------------------------------- is_user_subscribed (88-110)

\* What bot.get_chat_member can do: return a status, or raise.
LookupOutcomes == {"member", "restricted", "left", "kicked", "failed"}

\* Lines 103-108 with the except clause letting the loop go on.
ChannelPasses_FailsOpen(outcome) == outcome \notin {"left", "kicked"}

\* One channel lets the loop go on: the lookup returned, and not left/kicked.
ChannelPasses(outcome) == outcome \notin {"failed", "left", "kicked"}

\* ------------------------------------------------ confirm button (211-242)

\* The test of lines 223 and 231 with the case of no pending code left out.
CheckSubsReply_NoPendingTest(subscribed, code, movie_title) ==
    IF ~subscribed THEN "not_subscribed_alert"
    ELSE IF ~Truthy(movie_title) THEN "code_mismatch"
    ELSE "title"

\* The message callback_check_subs sends once is_user_subscribed has returned.
CheckSubsReply(subscribed, code, movie_title) ==
    IF ~subscribed THEN "not_subscribed_alert"
    ELSE IF ~Truthy(code) THEN "send_a_code"
    ELSE IF ~Truthy(movie_title) THEN "code_mismatch"
    ELSE "title"

\* callback_check_subs from line 217 on; rest is the bag of the other handlers.
check_subs_after(rest, u, subscribed, o) ==
    LET code == Get(PENDING_CODES, u)
        movie_title == Get(MOVIES, code)
        reply == CheckSubsReply(subscribed, code, movie_title)
        seen == [o EXCEPT !.subscribed = IF subscribed THEN "yes" ELSE "no",
                          !.reply = reply]
    IN  /\ IF reply \in {"not_subscribed_alert", "send_a_code"}
           THEN /\ tasks' = rest
                /\ last' = [seen EXCEPT !.done = TRUE]
           ELSE /\ BagCardinality(rest) < MaxTasks
                /\ tasks' = rest (+) SetToBag({Suspended("check_subs", u, "edit_text",
                                                         code, movie_title, 0)})
                /\ last' = [seen EXCEPT !.code = code, !.title = movie_title]
        /\ UNCHANGED <<REQUIRED_CHANNELS, session, store>>

callback_check_subs(u) ==
    IF REQUIRED_CHANNELS = <<>>
       THEN check_subs_after(tasks, u, TRUE, Began("check_subs", u))
       ELSE /\ CanSuspend
            /\ tasks' = Suspend(Suspended("check_subs", u, "get_chat_member", None, None, 1))
            /\ last' = [Began("check_subs", u) EXCEPT !.asked = REQUIRED_CHANNELS[1]]
            /\ UNCHANGED <<REQUIRED_CHANNELS, session, store>>

\* Lines 235 and 242 run only if edit_text did not raise.
PendingAfterEdit(pending, u, delivered) ==
    IF delivered THEN Pop(pending, u) ELSE pending

edit_text_returns(tk, delivered) ==
    /\ tk.h = "check_subs"
    /\ tk.pc = "edit_text"
    /\ PENDING_CODES' = PendingAfterEdit(PENDING_CODES, tk.u, delivered)
    /\ tasks' = Resume(tk)
    /\ last' = [Seen("check_subs", tk.u) EXCEPT
                   !.code = tk.code, !.title = tk.title,
                   !.raised = ~delivered, !.done = TRUE]
    /\ UNCHANGED <<REQUIRED_CHANNELS, ADMIN_STATES, ADMIN_DATA, READY_USERS, store>>

\* ------------------------------------------- administrator's buttons (245-299)

\* Lines 246-258 without the pop of line 253.
admin_add_movie_KeepsData(u) ==
    /\ IF IsAdmin(u)
       THEN /\ ADMIN_STATES' = Put(ADMIN_STATES, u, "add_wait_code")
            /\ ADMIN_DATA' = ADMIN_DATA
            /\ last' = [Began("admin_add_movie", u) EXCEPT !.reply = "add_prompt", !.done = TRUE]
       ELSE /\ UNCHANGED <<ADMIN_STATES, ADMIN_DATA>>
            /\ last' = [Began("admin_add_movie", u) EXCEPT !.reply = "no_access", !.done = TRUE]
    /\ UNCHANGED <<REQUIRED_CHANNELS, PENDING_CODES, READY_USERS, store, tasks>>

admin_add_movie(u) ==
    /\ IF IsAdmin(u)
       THEN /\ ADMIN_STATES' = Put(ADMIN_STATES, u, "add_wait_code")
            /\ ADMIN_DATA' = Pop(ADMIN_DATA, u)
            /\ last' = [Began("admin_add_movie", u) EXCEPT !.reply = "add_prompt", !.done = TRUE]
       ELSE /\ UNCHANGED <<ADMIN_STATES, ADMIN_DATA>>
            /\ last' = [Began("admin_add_movie", u) EXCEPT !.reply = "no_access", !.done = TRUE]
    /\ UNCHANGED <<REQUIRED_CHANNELS, PENDING_CODES, READY_USERS, store, tasks>>

admin_list_movies(u) ==
    /\ last' = [Began("admin_list_movies", u) EXCEPT
                   !.reply = IF ~IsAdmin(u) THEN "no_access"
                             ELSE IF MOVIES = EmptyDict THEN "list_empty"
                             ELSE "list",
                   !.done = TRUE]
    /\ UNCHANGED <<REQUIRED_CHANNELS, session, store, tasks>>

admin_delete_movie(u) ==
    /\ IF IsAdmin(u)
       THEN /\ ADMIN_STATES' = Put(ADMIN_STATES, u, "delete_wait_code")
            /\ ADMIN_DATA' = Pop(ADMIN_DATA, u)
            /\ last' = [Began("admin_delete_movie", u) EXCEPT !.reply = "delete_prompt", !.done = TRUE]
       ELSE /\ UNCHANGED <<ADMIN_STATES, ADMIN_DATA>>
            /\ last' = [Began("admin_delete_movie", u) EXCEPT !.reply = "no_access", !.done = TRUE]
    /\ UNCHANGED <<REQUIRED_CHANNELS, PENDING_CODES, READY_USERS, store, tasks>>

\* ------------------------------------------------------ text messages (306-399)

\* Lines 317, 346, 378 without the call of upper().
CodeOf_NoUpper(raw) == strip(raw)

\* Lines 309, 317, 346, 378: the code a message text stands for.
CodeOf(raw) == upper(strip(raw))

\* Line 328 with the title normalized like a code.
TitleOf_Upper(raw) == upper(strip(raw))

\* Lines 309, 328: the title a message text stands for.
TitleOf(raw) == strip(raw)

AdminStateNames == {"add_wait_code", "add_wait_title", "delete_wait_code"}

\* Line 312 with the branch of line 316 missing: a text sent while the code
\* of a new movie is awaited falls through to the lookup.
InAdminFlow_NoAddCode(u) ==
    u = ADMIN_ID /\ u \in DOMAIN ADMIN_STATES
    /\ ADMIN_STATES[u] \in {"add_wait_title", "delete_wait_code"}

\* Line 312 and the three tests of state: the administrator's dialogue takes
\* the message.
InAdminFlow(u) ==
    u = ADMIN_ID /\ u \in DOMAIN ADMIN_STATES /\ ADMIN_STATES[u] \in AdminStateNames

AdminStep(u, state) == InAdminFlow(u) /\ ADMIN_STATES[u] = state

\* Lines 316-324.
handle_text_add_wait_code(u, raw) ==
    LET code == CodeOf(raw)
    IN  /\ AdminStep(u, "add_wait_code")
        /\ ADMIN_DATA' = Put(ADMIN_DATA, u, code)
        /\ ADMIN_STATES' = Put(ADMIN_STATES, u, "add_wait_title")
        /\ last' = [Began("handle_text", u) EXCEPT
                       !.text = raw, !.reply = "code_saved", !.code = code, !.done = TRUE]
        /\ UNCHANGED <<REQUIRED_CHANNELS, PENDING_CODES, READY_USERS, store, tasks>>

\* Lines 327-342 with an await between lines 331 and 332: the handler is
\* suspended with the title in MOVIES and the snapshot not yet written.
handle_text_add_wait_title_AwaitBeforeSave(u, raw) ==
    /\ AdminStep(u, "add_wait_title")
    /\ u \in DOMAIN ADMIN_DATA
    /\ CanSuspend
    /\ MOVIES' = Put(MOVIES, ADMIN_DATA[u], TitleOf(raw))
    /\ tasks' = Suspend(Suspended("handle_text", u, "answer", None, None, 0))
    /\ last' = [Began("handle_text", u) EXCEPT
                   !.text = raw, !.code = ADMIN_DATA[u], !.title = TitleOf(raw)]
    /\ UNCHANGED <<REQUIRED_CHANNELS, session, file>>

\* Lines 327-342.  ADMIN_DATA[user_id] raises KeyError when nothing was captured.
handle_text_add_wait_title(u, raw) ==
    LET title == TitleOf(raw)
    IN  /\ AdminStep(u, "add_wait_title")
        /\ IF u \in DOMAIN ADMIN_DATA
           THEN LET code == ADMIN_DATA[u]
                IN  \E outcome \in SaveOutcomes :
                    /\ MOVIES' = Put(MOVIES, code, title)
                    /\ file' = save_movies(file, MOVIES', outcome)
                    /\ ADMIN_STATES' = Pop(ADMIN_STATES, u)
                    /\ ADMIN_DATA' = Pop(ADMIN_DATA, u)
                    /\ last' = [Began("handle_text", u) EXCEPT
                                   !.text = raw, !.reply = "added", !.code = code,
                                   !.title = title, !.saved = outcome, !.done = TRUE]
           ELSE /\ UNCHANGED <<store, ADMIN_STATES, ADMIN_DATA>>
                /\ last' = [Began("handle_text", u) EXCEPT
                               !.text = raw, !.raised = TRUE, !.done = TRUE]
        /\ UNCHANGED <<REQUIRED_CHANNELS, PENDING_CODES, READY_USERS, tasks>>

\* Line 348.
InStore(movies, code) == code \in DOMAIN movies

\* Lines 344-361, up to the await of message.answer.
handle_text_delete_wait_code(u, raw) ==
    LET code == CodeOf(raw)
    IN  /\ CanSuspend
        /\ AdminStep(u, "delete_wait_code")
        /\ IF InStore(MOVIES, code)
           THEN \E outcome \in SaveOutcomes :
                /\ MOVIES' = Pop(MOVIES, code)
                /\ file' = save_movies(file, MOVIES', outcome)
                /\ last' = [Began("handle_text", u) EXCEPT
                               !.text = raw, !.reply = "deleted", !.code = code,
                               !.title = MOVIES[code], !.saved = outcome]
           ELSE /\ UNCHANGED store
                /\ last' = [Began("handle_text", u) EXCEPT
                               !.text = raw, !.reply = "not_in_base", !.code = code]
        /\ tasks' = Suspend(Suspended("handle_text", u, "answer", None, None, 0))
        /\ UNCHANGED <<REQUIRED_CHANNELS, session>>

\* Lines 363-364 run only if message.answer did not raise.
AdminAfterAnswer(d, u, delivered) ==
    IF delivered THEN Pop(d, u) ELSE d

answer_returns(tk, delivered) ==
    /\ tk.h = "handle_text"
    /\ tk.pc = "answer"
    /\ ADMIN_STATES' = AdminAfterAnswer(ADMIN_STATES, tk.u, delivered)
    /\ ADMIN_DATA' = AdminAfterAnswer(ADMIN_DATA, tk.u, delivered)
    /\ tasks' = Resume(tk)
    /\ last' = [Seen("handle_text", tk.u) EXCEPT !.raised = ~delivered, !.done = TRUE]
    /\ UNCHANGED <<REQUIRED_CHANNELS, PENDING_CODES, READY_USERS, store>>

\* The test of line 370 with == in place of != : the exemption turned round.
NeedsActivation_OnlyAdmin(u) == u \notin READY_USERS /\ u = ADMIN_ID

\* The test of line 370 left out.
NeedsActivation_Never(u) == FALSE

\* The test of line 370 with the membership test the wrong way round.
NeedsActivation_Inverted(u) == u \in READY_USERS /\ u # ADMIN_ID

\* Line 370: the sender has to press the activation button first.
NeedsActivation(u) == u \notin READY_USERS /\ u # ADMIN_ID

\* Lines 369-375.
handle_text_not_ready(u, raw) ==
    /\ ~InAdminFlow(u)
    /\ NeedsActivation(u)
    /\ last' = [Began("handle_text", u) EXCEPT
                   !.text = raw, !.reply = "activate_prompt", !.done = TRUE]
    /\ UNCHANGED <<REQUIRED_CHANNELS, session, store, tasks>>

\* Line 388 taken out of the test of line 387: the code is kept pending
\* whatever is_user_subscribed answered.
PendingAfterLookup_Always(pending, u, code, subscribed) == Put(pending, u, code)

\* Lines 387-388: PENDING_CODES once is_user_subscribed has answered.
PendingAfterLookup(pending, u, code, subscribed) ==
    IF ~subscribed THEN Put(pending, u, code) ELSE pending

\* Lines 387-399 without the subscription gate: the title goes out either way.
LookupReply_NoGate(subscribed) == "title"

\* Lines 387-399: the message handle_text sends then.
LookupReply(subscribed) == IF subscribed THEN "title" ELSE "subscribe_prompt"

\* handle_text from line 387 on; rest is the bag of the other handlers.
handle_text_after(rest, u, code, movie_title, subscribed, o) ==
    LET reply == LookupReply(subscribed)
    IN  /\ PENDING_CODES' = PendingAfterLookup(PENDING_CODES, u, code, subscribed)
        /\ tasks' = rest
        /\ last' = [o EXCEPT !.subscribed = IF subscribed THEN "yes" ELSE "no",
                             !.reply = reply,
                             !.code = code,
                             !.title = IF reply = "title" THEN movie_title ELSE None,
                             !.done = TRUE]
        /\ UNCHANGED <<REQUIRED_CHANNELS, ADMIN_STATES, ADMIN_DATA, READY_USERS, store>>

\* Lines 377-385.
handle_text_lookup(u, raw) ==
    LET code == CodeOf(raw)
        movie_title == Get(MOVIES, code)
        o == [Began("handle_text", u) EXCEPT !.text = raw]
    IN  /\ ~InAdminFlow(u)
        /\ ~NeedsActivation(u)
        /\ IF ~Truthy(movie_title)
           THEN /\ last' = [o EXCEPT !.reply = "not_found", !.code = code, !.done = TRUE]
                /\ UNCHANGED <<REQUIRED_CHANNELS, session, store, tasks>>
           ELSE IF REQUIRED_CHANNELS = <<>>
           THEN handle_text_after(tasks, u, code, movie_title, TRUE, o)
           ELSE /\ CanSuspend
                /\ tasks' = Suspend(Suspended("handle_text", u, "get_chat_member",
                                              code, movie_title, 1))
                /\ last' = [o EXCEPT !.asked = REQUIRED_CHANNELS[1]]
                /\ UNCHANGED <<REQUIRED_CHANNELS, session, store>>

\* ------------------------------------- is_user_subscribed resumes (101-110)

get_chat_member_returns(tk, outcome) ==
    LET o == [Seen(tk.h, tk.u) EXCEPT !.got = outcome]
    IN  /\ tk.pc = "get_chat_member"
        /\ IF ChannelPasses(outcome) /\ tk.ch < Len(REQUIRED_CHANNELS)
           THEN /\ tasks' = Resume(tk) (+) SetToBag({[tk EXCEPT !.ch = tk.ch + 1]})
                /\ last' = [o EXCEPT !.asked = REQUIRED_CHANNELS[tk.ch + 1]]
                /\ UNCHANGED <<REQUIRED_CHANNELS, session, store>>
           ELSE IF tk.h = "check_subs"
           THEN check_subs_after(Resume(tk), tk.u, ChannelPasses(outcome), o)
           ELSE handle_text_after(Resume(tk), tk.u, tk.code, tk.title,
                                  ChannelPasses(outcome), o)

\* ------------------------------------------------------------ specification

Next ==
    \/ \E u \in Users : cmd_start(u)
    \/ \E u \in Users : admin_panel(u)
    \/ \E u \in Users : callback_user_start(u)
    \/ \E u \in Users : callback_check_subs(u)
    \/ \E tk \in Waiting, delivered \in BOOLEAN : edit_text_returns(tk, delivered)
    \/ \E u \in Users : admin_add_movie(u)
    \/ \E u \in Users : admin_list_movies(u)
    \/ \E u \in Users : admin_delete_movie(u)
    \/ \E u \in Users, raw \in Texts : handle_text_add_wait_code(u, raw)
    \/ \E u \in Users, raw \in Texts : handle_text_add_wait_title(u, raw)
    \/ \E u \in Users, raw \in Texts : handle_text_delete_wait_code(u, raw)
    \/ \E tk \in Waiting, delivered \in BOOLEAN : answer_returns(tk, delivered)
    \/ \E u \in Users, raw \in Texts : handle_text_not_ready(u, raw)
    \/ \E u \in Users, raw \in Texts : handle_text_lookup(u, raw)
    \/ \E tk \in Waiting, outcome \in LookupOutcomes : get_chat_member_returns(tk, outcome)

Spec == Init /\ [][Next]_vars

\* --------------------------------------------- the store across restarts

\* Texts that differ in case and in the blanks around them.
KeyTexts == { <<"a">>, <<"A">>, <<"a", "b">>, <<"A", "b">>, <<" ", "a", "B">> }

\* Snapshots a start may find: none, an unreadable one, an empty object, and
\* an object whose keys are not in upper case.
KeySnapshots ==
    { NoFile, BadFile, JsonFile(EmptyDict),
      JsonFile((<<"a">> :> <<"M">>) @@ (<<"a", "B">> :> <<"N">>)) }

\* The process starts with no channel configured.
InitStore ==
    /\ REQUIRED_CHANNELS = <<>>
    /\ file \in KeySnapshots
    /\ MOVIES = load_movies(file)
    /\ PENDING_CODES = EmptyDict
    /\ ADMIN_STATES = EmptyDict
    /\ ADMIN_DATA = EmptyDict
    /\ READY_USERS = {}
    /\ tasks = EmptyBag
    /\ last = Seen("init", 0)

\* The process is stopped and started again: the module is executed anew,
\* line 67 loads whatever snapshot the last run left.
restart ==
    /\ MOVIES' = load_movies(file)
    /\ PENDING_CODES' = EmptyDict
    /\ ADMIN_STATES' = EmptyDict
    /\ ADMIN_DATA' = EmptyDict
    /\ READY_USERS' = {}
    /\ tasks' = EmptyBag
    /\ last' = [Seen("init", 0) EXCEPT !.first = TRUE]
    /\ UNCHANGED <<REQUIRED_CHANNELS, file>>

\* The handlers that read or write the store, and restarts.
NextStore ==
    \/ restart
    \/ \E u \in Users : callback_user_start(u)
    \/ \E u \in Users : admin_add_movie(u)
    \/ \E u \in Users : admin_list_movies(u)
    \/ \E u \in Users : admin_delete_movie(u)
    \/ \E u \in Users, raw \in KeyTexts : handle_text_add_wait_code(u, raw)
    \/ \E u \in Users, raw \in KeyTexts : handle_text_add_wait_title(u, raw)
    \/ \E u \in Users, raw \in KeyTexts : handle_text_delete_wait_code(u, raw)
    \/ \E tk \in Waiting, delivered \in BOOLEAN : answer_returns(tk, delivered)
    \/ \E u \in Users, raw \in KeyTexts : handle_text_not_ready(u, raw)
    \/ \E u \in Users, raw \in KeyTexts : handle_text_lookup(u, raw)

SpecStore == InitStore /\ [][NextStore]_vars

\* ------------------------------------------------------------------- claims

\* The step just taken began handle_text for user u with the text raw.
TextBegins(u, raw) ==
    last'.first /\ last'.h = "handle_text" /\ last'.u = u /\ last'.text = raw

\* C1: a text message of a sender who is not the administrator and has not
\* pressed the activation button is answered with the activation prompt
\* alone: no title, no membership lookup, nothing suspended, and the session
\* and the store are left as they were, even when the text names a stored code.
C1_ActivationGate ==
    [][\A u \in Users, raw \in Texts :
          (TextBegins(u, raw) /\ u # ADMIN_ID /\ u \notin READY_USERS)
          => /\ last'.reply = "activate_prompt"
             /\ last'.title = None
             /\ last'.asked = ""
             /\ last'.subscribed = ""
             /\ last'.done
             /\ UNCHANGED <<session, store, tasks>>]_vars

\* C1: an unactivated user sent a stored code and got the activation prompt.
C1_Witness ==
    /\ last.h = "handle_text" /\ last.first
    /\ last.u # ADMIN_ID /\ last.u \notin READY_USERS
    /\ upper(strip(last.text)) \in DOMAIN MOVIES
    /\ last.reply = "activate_prompt"

\* C2 at the start of a lookup: a code that is not stored is answered with
\* "not found", without a membership lookup and without any change; a stored
\* code leads to is_user_subscribed, and to nothing else until it has answered.
C2_Begin ==
    \A u \in Users, raw \in Texts :
       (/\ TextBegins(u, raw)
        /\ ~(u = ADMIN_ID /\ u \in DOMAIN ADMIN_STATES)
        /\ (u = ADMIN_ID \/ u \in READY_USERS))
       => LET code == upper(strip(raw))
          IN  IF code \notin DOMAIN MOVIES
              THEN /\ last'.reply = "not_found"
                   /\ last'.asked = "" /\ last'.subscribed = ""
                   /\ last'.done
                   /\ UNCHANGED <<session, store, tasks>>
              ELSE /\ last'.reply \in {"", "title", "subscribe_prompt"}
                   /\ last'.subscribed = ""
                      => /\ last'.reply = ""
                         /\ last'.asked = REQUIRED_CHANNELS[1]
                         /\ tasks' = Suspend(
                               Suspended("handle_text", u, "get_chat_member",
                                         code, MOVIES[code], 1))
                         /\ UNCHANGED <<session, store>>
                   /\ last'.subscribed # "" => last'.code = code

\* C2 when is_user_subscribed has answered in handle_text: the title goes out
\* exactly if the answer was true; if it was false the sender gets the
\* subscribe prompt and PENDING_CODES[sender] becomes the code of the message.
C2_Finish ==
    (last'.h = "handle_text" /\ last'.subscribed # "")
    => /\ last'.reply = "title" <=> last'.subscribed = "yes"
       /\ last'.subscribed = "no"
          => /\ last'.reply = "subscribe_prompt"
             /\ last'.title = None
             /\ PENDING_CODES' = Put(PENDING_CODES, last'.u, last'.code)
       /\ ~last'.first
          => \E tk \in Waiting :
                /\ tk.h = "handle_text" /\ tk.pc = "get_chat_member"
                /\ tk.u = last'.u /\ tk.code = last'.code
                /\ last'.reply = "title" => last'.title = tk.title
       /\ UNCHANGED <<ADMIN_STATES, ADMIN_DATA, READY_USERS, store>>

\* C2: the subscription gate on the lookup of a code.
C2_SubscriptionGate == [][C2_Begin /\ C2_Finish]_vars

\* C2: a lookup of a stored code found the sender not subscribed and withheld
\* the title.
C2_Witness ==
    /\ last.h = "handle_text" /\ last.subscribed = "no"
    /\ last.reply = "subscribe_prompt"
    /\ last.code \in DOMAIN MOVIES
    /\ Get(PENDING_CODES, last.u) = last.code

\* The step just taken is the one at which the edit_text of a confirm handler
\* returned or raised, after that handler had found its user subscribed with
\* PENDING_CODES set.
EditReturned ==
    last'.h = "check_subs" /\ last'.done /\ ~last'.first /\ last'.reply = ""
    /\ last'.subscribed = ""

\* C3: the subscription round trip.  A confirm shows a title only for the
\* code that was withheld, and it is the store's title; once the confirm that
\* showed it is over PENDING_CODES of the user is cleared; and a confirm that
\* finds the user subscribed with nothing pending shows the generic message
\* and no title.
C3_RoundTrip ==
    [][/\ (last'.h = "check_subs" /\ last'.reply = "title")
          => /\ last'.u \in DOMAIN PENDING_CODES
             /\ last'.code = PENDING_CODES[last'.u]
             /\ last'.title = Get(MOVIES, last'.code)
       /\ (EditReturned /\ Truthy(last'.title))
          => last'.u \notin DOMAIN PENDING_CODES'
       /\ (last'.h = "check_subs" /\ last'.subscribed = "yes"
             /\ last'.u \notin DOMAIN PENDING_CODES)
          => last'.reply = "send_a_code" /\ last'.title = None]_vars

\* C4: the outcome of the confirm button.  If is_user_subscribed answers
\* false the user gets the alert alone and nothing changes; if it answers
\* true the reply is decided by the state at that moment: the generic
\* message if PENDING_CODES has no entry for the user, the code-mismatch error
\* if its code is not in the store, and otherwise the title the store holds
\* for it at that moment.
C4_ConfirmOutcome ==
    [][\A u \in Users :
          (last'.h = "check_subs" /\ last'.u = u /\ last'.subscribed # "")
          => /\ UNCHANGED <<session, store>>
             /\ IF last'.subscribed = "no"
                THEN /\ last'.reply = "not_subscribed_alert"
                     /\ last'.title = None
                     /\ last'.done
                ELSE IF u \notin DOMAIN PENDING_CODES
                THEN /\ last'.reply = "send_a_code"
                     /\ last'.title = None
                ELSE IF PENDING_CODES[u] \notin DOMAIN MOVIES
                THEN /\ last'.reply = "code_mismatch"
                     /\ last'.title = None
                ELSE /\ last'.reply = "title"
                     /\ last'.code = PENDING_CODES[u]
                     /\ last'.title = MOVIES[PENDING_CODES[u]]]_vars

\* C4: a confirm found the user subscribed and showed the title stored for
\* the pending code.
C4_Witness ==
    /\ last.h = "check_subs" /\ last.subscribed = "yes"
    /\ last.reply = "title"
    /\ Get(PENDING_CODES, last.u) = last.code
    /\ Get(MOVIES, last.code) = last.title

\* C5: PENDING_CODES of a user is cleared exactly by the confirm handlers of
\* that user that found the user subscribed with a code pending: each of them
\* has cleared it when it is over, nothing else removes an entry, and a
\* lookup that delivers a title leaves PENDING_CODES as it was.
C5_PendingCleared ==
    [][/\ EditReturned => last'.u \notin DOMAIN PENDING_CODES'
       /\ \A u \in Users :
             (u \in DOMAIN PENDING_CODES /\ u \notin DOMAIN PENDING_CODES')
             => (EditReturned /\ last'.u = u)
       /\ (last'.h = "handle_text" /\ last'.reply = "title")
          => PENDING_CODES' = PENDING_CODES]_vars

\* C6: while the administrator has an entry in ADMIN_STATES every text
\* message of the administrator is taken by the dialogue, also a text that
\* names a stored code: the reply is the one of the dialogue's step, there is
\* no lookup reply, no title of a lookup, no membership lookup, and
\* PENDING_CODES does not change, neither then nor when the handler resumes.
C6_AdminPreemption ==
    [][/\ \A raw \in Texts :
             (TextBegins(ADMIN_ID, raw) /\ ADMIN_ID \in DOMAIN ADMIN_STATES)
             => /\ last'.reply =
                      (CASE ADMIN_STATES[ADMIN_ID] = "add_wait_code" -> "code_saved"
                         [] ADMIN_STATES[ADMIN_ID] = "add_wait_title" -> "added"
                         [] ADMIN_STATES[ADMIN_ID] = "delete_wait_code" ->
                               IF upper(strip(raw)) \in DOMAIN MOVIES
                               THEN "deleted" ELSE "not_in_base"
                         [] OTHER -> "")
                /\ last'.asked = "" /\ last'.subscribed = ""
                /\ PENDING_CODES' = PENDING_CODES
                /\ \A tk \in BagToSet(tasks') \ Waiting : tk.pc = "answer"
       /\ \A tk \in Waiting :
             (tk.pc = "answer" /\ tasks' = Resume(tk))
             => /\ last'.reply = "" /\ last'.asked = ""
                /\ PENDING_CODES' = PENDING_CODES]_vars

\* C6: the administrator, asked for the code of a new movie, sent a code the
\* store already holds, and it was captured for the add dialogue.
C6_Witness ==
    /\ last.h = "handle_text" /\ last.first /\ last.u = ADMIN_ID
    /\ last.reply = "code_saved"
    /\ last.code \in DOMAIN MOVIES
    /\ Get(ADMIN_DATA, ADMIN_ID) = last.code
    /\ Get(ADMIN_STATES, ADMIN_ID) = "add_wait_title"

\* The add dialogue, step by step, for the title that is stored for the text
\* raw of the second message.
AddFlow(Stored(_)) ==
    \A raw \in Texts :
       TextBegins(ADMIN_ID, raw)
       => /\ Get(ADMIN_STATES, ADMIN_ID) = "add_wait_code"
             => /\ UNCHANGED <<store, PENDING_CODES, READY_USERS>>
                /\ ADMIN_DATA' = Put(ADMIN_DATA, ADMIN_ID, upper(strip(raw)))
                /\ ADMIN_STATES' = Put(ADMIN_STATES, ADMIN_ID, "add_wait_title")
          /\ Get(ADMIN_STATES, ADMIN_ID) = "add_wait_title"
             => /\ ADMIN_ID \in DOMAIN ADMIN_DATA
                /\ MOVIES' = Put(MOVIES, ADMIN_DATA[ADMIN_ID], Stored(raw))
                /\ ADMIN_ID \notin DOMAIN ADMIN_STATES'
                /\ ADMIN_ID \notin DOMAIN ADMIN_DATA'
                /\ UNCHANGED <<PENDING_CODES, READY_USERS>>

AsSent(raw) == raw

Trimmed(raw) == strip(raw)

\* C7 as claimed: the first text c of the add dialogue only sets the captured
\* code to the normalized c and moves on to the title; the second text t
\* makes the store map the captured code to t, every other entry unchanged,
\* and clears the dialogue.
C7_AddFlowAsSent == [][AddFlow(AsSent)]_vars

\* C7 as amended: the same, the store mapping the captured code to t with
\* the whitespace at its ends removed.
C7_AddFlow == [][AddFlow(Trimmed)]_vars

\* C7: the add dialogue has stored a title that was sent with a leading blank.
C7_Witness ==
    /\ last.h = "handle_text" /\ last.reply = "added"
    /\ last.text = <<" ", "a">>
    /\ last.code = <<"A">>
    /\ Get(MOVIES, <<"A">>) = <<"a">>
    /\ ADMIN_ID \notin DOMAIN ADMIN_STATES
    /\ ADMIN_ID \notin DOMAIN ADMIN_DATA

\* C8: the delete dialogue.  The text removes its normalized code from the
\* store, saves and reports the title it had, or reports that it is not
\* stored and neither changes the store nor saves; and when the handler is
\* over the administrator has no entry in ADMIN_STATES and ADMIN_DATA.
C8_DeleteFlow ==
    [][/\ \A raw \in Texts :
             (TextBegins(ADMIN_ID, raw)
                /\ Get(ADMIN_STATES, ADMIN_ID) = "delete_wait_code")
             => LET code == upper(strip(raw))
                IN  IF code \in DOMAIN MOVIES
                    THEN /\ MOVIES' = Pop(MOVIES, code)
                         /\ last'.reply = "deleted"
                         /\ last'.title = MOVIES[code]
                         /\ last'.saved # ""
                    ELSE /\ UNCHANGED store
                         /\ last'.reply = "not_in_base"
                         /\ last'.saved = ""
       /\ \A tk \in Waiting :
             (tk.pc = "answer" /\ tasks' = Resume(tk))
             => /\ tk.u \notin DOMAIN ADMIN_STATES'
                /\ tk.u \notin DOMAIN ADMIN_DATA']_vars

\* Only the administrator has a dialogue.
AdminOnly ==
    /\ DOMAIN ADMIN_STATES \subseteq {ADMIN_ID}
    /\ DOMAIN ADMIN_DATA \subseteq {ADMIN_ID}

\* C9: only the administrator ever has an entry in ADMIN_STATES or
\* ADMIN_DATA; the store and the snapshot change only in steps of handlers of
\* the administrator's updates; and the admin command and the three admin
\* buttons, coming from anybody else, are answered with the refusal and
\* change nothing.
C9_AdminExclusive ==
    /\ AdminOnly
    /\ [][/\ AdminOnly'
          /\ (MOVIES' # MOVIES \/ file' # file) => last'.u = ADMIN_ID
          /\ (/\ last'.h \in {"admin_panel", "admin_add_movie",
                              "admin_list_movies", "admin_delete_movie"}
              /\ last'.u # ADMIN_ID)
             => /\ last'.reply = "no_access"
                /\ UNCHANGED <<session, store, tasks>>]_vars

\* C9: somebody else pressed "delete movie" while the administrator was in
\* the add dialogue, and was refused.
C9_Witness ==
    /\ last.h = "admin_delete_movie" /\ last.u # ADMIN_ID
    /\ last.reply = "no_access"
    /\ Get(ADMIN_STATES, ADMIN_ID) = "add_wait_title"

\* C10 as claimed: nobody has a pending code and a dialogue at once, and
\* whoever has either has pressed the activation button.
C10_Exclusive ==
    \A u \in Users :
       /\ ~(u \in DOMAIN PENDING_CODES /\ u \in DOMAIN ADMIN_STATES)
       /\ (u \in DOMAIN PENDING_CODES \/ u \in DOMAIN ADMIN_STATES)
          => u \in READY_USERS

\* C10 as amended: anybody but the administrator never has a dialogue, and
\* has a pending code only after pressing the activation button.
C10_ExclusiveForUsers ==
    \A u \in Users \ {ADMIN_ID} :
       /\ u \notin DOMAIN ADMIN_STATES
       /\ u \in DOMAIN PENDING_CODES => u \in READY_USERS

\* C10: a user waits for the subscription check after activation, while the
\* administrator, never activated, has a pending code and a dialogue at once.
C10_Witness ==
    /\ \E u \in Users \ {ADMIN_ID} :
          u \in DOMAIN PENDING_CODES /\ u \in READY_USERS
    /\ ADMIN_ID \in DOMAIN PENDING_CODES
    /\ ADMIN_ID \in DOMAIN ADMIN_STATES
    /\ ADMIN_ID \notin READY_USERS

\* C11: the start command, from anybody and in any state, leaves the session
\* and the store as they were; a user enters READY_USERS only in the step of
\* that user's activation button; and nobody ever leaves READY_USERS.
C11_ActivationOnlyByButton ==
    [][/\ last'.h = "cmd_start" => UNCHANGED <<session, store, tasks>>
       /\ READY_USERS \subseteq READY_USERS'
       /\ \A u \in READY_USERS' \ READY_USERS :
             last'.h = "user_start" /\ last'.u = u]_vars

\* C11: somebody who is not activated sent the start command while a code
\* was pending, the administrator was in a dialogue and somebody else was
\* activated, and is still not activated.
C11_Witness ==
    /\ last.h = "cmd_start"
    /\ last.u \notin READY_USERS
    /\ ADMIN_STATES # EmptyDict
    /\ PENDING_CODES # EmptyDict
    /\ READY_USERS # {}

\* The step just taken resumed the handler tk at the await of get_chat_member.
LookupAnswered(tk) ==
    /\ tk.pc = "get_chat_member"
    /\ last'.got # ""
    /\ last'.h = tk.h /\ last'.u = tk.u
    /\ CopiesIn(tk, tasks') < CopiesIn(tk, tasks)

\* C12: is_user_subscribed with channels configured.  The first lookup is for
\* the first configured channel; a lookup that returns a status other than
\* left and kicked is followed by the lookup for the next configured channel,
\* and by the answer true after the last one; a lookup that raises or returns
\* left or kicked is followed by the answer false with no further lookup;
\* and no outcome of a lookup ends the handler with an exception.
C12_FailsClosed ==
    [][/\ (last'.first /\ last'.asked # "")
          => /\ REQUIRED_CHANNELS # <<>>
             /\ last'.asked = REQUIRED_CHANNELS[1]
             /\ last'.subscribed = ""
             /\ \E tk \in BagToSet(tasks') :
                   /\ tk.pc = "get_chat_member" /\ tk.ch = 1
                   /\ tk.h = last'.h /\ tk.u = last'.u
                   /\ CopiesIn(tk, tasks') = CopiesIn(tk, tasks) + 1
       /\ \A tk \in Waiting :
             LookupAnswered(tk)
             => LET passed == last'.got \notin {"failed", "left", "kicked"}
                IN  /\ tk.ch \in 1..Len(REQUIRED_CHANNELS)
                    /\ ~last'.raised
                    /\ IF passed /\ tk.ch < Len(REQUIRED_CHANNELS)
                       THEN /\ last'.asked = REQUIRED_CHANNELS[tk.ch + 1]
                            /\ last'.subscribed = ""
                            /\ tasks' = Resume(tk) (+) SetToBag({[tk EXCEPT !.ch = tk.ch + 1]})
                            /\ UNCHANGED <<session, store>>
                       ELSE /\ last'.asked = ""
                            /\ last'.subscribed = IF passed THEN "yes" ELSE "no"]_vars

\* C12: the lookup for a channel raised, and is_user_subscribed answered
\* false without an exception and without another lookup.
C12_Witness ==
    /\ Len(REQUIRED_CHANNELS) = 2
    /\ last.got = "failed"
    /\ last.subscribed = "no"
    /\ last.asked = ""
    /\ ~last.raised

\* C13: with no channel configured no membership lookup is ever issued or
\* awaited and is_user_subscribed never answers false; a text that names a
\* stored code, from a sender who is past the activation gate and not in the
\* administrator's dialogue, is answered with the stored title in the same
\* step; and PENDING_CODES stays empty.
C13_GateDisabled ==
    /\ REQUIRED_CHANNELS = <<>> => PENDING_CODES = EmptyDict
    /\ [][REQUIRED_CHANNELS = <<>>
          => /\ PENDING_CODES' = EmptyDict
             /\ last'.asked = "" /\ last'.got = ""
             /\ last'.subscribed # "no"
             /\ \A tk \in BagToSet(tasks') : tk.pc # "get_chat_member"
             /\ (last'.h = "check_subs" /\ last'.first) => last'.subscribed = "yes"
             /\ \A u \in Users, raw \in Texts :
                   (/\ TextBegins(u, raw)
                    /\ (u = ADMIN_ID \/ u \in READY_USERS)
                    /\ ~(u = ADMIN_ID /\ u \in DOMAIN ADMIN_STATES)
                    /\ upper(strip(raw)) \in DOMAIN MOVIES)
                   => /\ last'.subscribed = "yes"
                      /\ last'.reply = "title"
                      /\ last'.title = MOVIES[upper(strip(raw))]
                      /\ last'.done]_vars

\* C13: with no channel configured an activated user sent a stored code and
\* got its title at once.
C13_Witness ==
    /\ REQUIRED_CHANNELS = <<>>
    /\ last.h = "handle_text" /\ last.first /\ last.done
    /\ last.u # ADMIN_ID /\ last.u \in READY_USERS
    /\ last.reply = "title"
    /\ last.title = Get(MOVIES, upper(strip(last.text)))
    /\ PENDING_CODES = EmptyDict

\* Two characters that are the same letter in either case.
SameLetter(p, q) == p = q \/ {p, q} = {"a", "A"} \/ {p, q} = {"b", "B"}

\* y is x with some letters in the other case.
CaseVariant(x, y) ==
    Len(x) = Len(y) /\ \A i \in 1..Len(x) : SameLetter(x[i], y[i])

UpperKeys(movies) == \A k \in DOMAIN movies : upper(k) = k

\* C14: every key of MOVIES is its own upper case, from the load on and after
\* every step; the add dialogue captures the same key for every case variant
\* of the code sent and stores the title under it; and a lookup with any case
\* variant of a key of MOVIES finds the title stored under that key.
C14_CaseInsensitiveKeys ==
    /\ UpperKeys(MOVIES)
    /\ [][/\ UpperKeys(MOVIES')
          /\ \A raw \in KeyTexts :
                TextBegins(ADMIN_ID, raw)
                => /\ Get(ADMIN_STATES, ADMIN_ID) = "add_wait_code"
                      => \A other \in KeyTexts :
                            CaseVariant(strip(raw), strip(other))
                            => Get(ADMIN_DATA', ADMIN_ID) = upper(strip(other))
                   /\ Get(ADMIN_STATES, ADMIN_ID) = "add_wait_title"
                      => /\ CaseVariant(last'.code, ADMIN_DATA[ADMIN_ID])
                         /\ Get(MOVIES', last'.code) = strip(raw)
          /\ \A u \in Users, raw \in KeyTexts :
                (/\ TextBegins(u, raw)
                 /\ (u = ADMIN_ID \/ u \in READY_USERS)
                 /\ ~(u = ADMIN_ID /\ u \in DOMAIN ADMIN_STATES))
                => \A k \in DOMAIN MOVIES :
                      CaseVariant(strip(raw), k)
                      => last'.reply = "title" /\ last'.title = MOVIES[k]]_vars

\* C14: a title that only the add dialogue can have stored was found by a
\* lookup whose text is not in upper case.
C14_Witness ==
    /\ last.h = "handle_text" /\ last.reply = "title"
    /\ last.text = <<" ", "a", "B">>
    /\ last.title = <<"A", "b">>
    /\ Get(MOVIES, <<"A", "B">>) = <<"A", "b">>

\* C15: MOVIES changes only in a step that also calls save_movies, and the
\* add dialogue's put and a delete that removes an entry both do; a save that
\* succeeds leaves the snapshot equal to MOVIES, and a step without a save
\* leaves both as they were; a save that fails raises nothing and MOVIES keeps
\* the put or the delete; and lookups, listings and confirms answer from
\* MOVIES, whatever the snapshot holds.
C15_SaveOnMutation ==
    [][/\ MOVIES' # MOVIES => last'.saved # ""
       /\ last'.reply \in {"added", "deleted"} => last'.saved # ""
       /\ last'.saved = "" => UNCHANGED <<MOVIES, file>>
       /\ last'.saved = "ok" => file' = JsonFile(MOVIES')
       /\ last'.saved # ""
          => /\ ~last'.raised
             /\ last'.reply = "added" => Get(MOVIES', last'.code) = last'.title
             /\ last'.reply = "deleted" => last'.code \notin DOMAIN MOVIES'
       /\ (last'.h = "handle_text" /\ last'.first
              /\ last'.reply \notin {"code_saved", "added", "deleted",
                                     "not_in_base", "activate_prompt"})
          => /\ last'.reply = "not_found" <=> upper(strip(last'.text)) \notin DOMAIN MOVIES
             /\ last'.reply = "title" => last'.title = MOVIES[upper(strip(last'.text))]
       /\ (last'.h = "admin_list_movies" /\ last'.u = ADMIN_ID)
          => last'.reply = IF MOVIES = EmptyDict THEN "list_empty" ELSE "list"
       /\ (last'.h = "check_subs" /\ last'.reply = "title")
          => last'.title = Get(MOVIES, last'.code)]_vars

\* C15: the save of an added movie failed and left no readable snapshot, and
\* a later lookup was answered with the title that is held in memory only.
C15_Witness ==
    /\ file = BadFile
    /\ MOVIES # load_movies(file)
    /\ last.h = "handle_text" /\ last.reply = "title"
    /\ last.u # ADMIN_ID
    /\ last.title = Get(MOVIES, last.code)
    /\ last.title # Get(load_movies(file), last.code)

\* The awaits of the handlers: get_chat_member (102), edit_text after a
\* confirm (232, 238) and message.answer of the delete dialogue (351, 357).
AwaitPoints == {"get_chat_member", "edit_text", "answer"}

\* C16: mutations of the store are atomic for interleaved handlers.  MOVIES
\* and the snapshot change only in the step that begins a handler, by one put
\* or one removal, and that same step writes the snapshot, whole or not at
\* all readable; so no handler runs between a mutation and its write, no
\* write begins while another is under way, and a handler suspended at an
\* await keeps what it read.
C16_AtomicMutations ==
    [][/\ (MOVIES' # MOVIES \/ file' # file)
          => /\ last'.first /\ last'.saved # ""
             /\ file' \in {JsonFile(MOVIES'), BadFile}
             /\ \/ MOVIES' = Put(MOVIES, last'.code, last'.title)
                \/ MOVIES' = Pop(MOVIES, last'.code)
             /\ \A tk \in Waiting : CopiesIn(tk, tasks') >= CopiesIn(tk, tasks)
       /\ \A tk \in BagToSet(tasks') : tk.pc \in AwaitPoints]_vars

\* C16: while the lookup of another user was suspended at the membership
\* lookup the administrator replaced the title it had read, and the snapshot
\* holds the new mapping.
C16_Witness ==
    /\ last.reply = "added" /\ last.saved = "ok"
    /\ file = JsonFile(MOVIES)
    /\ \E tk \in Waiting :
          /\ tk.u # ADMIN_ID /\ tk.h = "handle_text" /\ tk.pc = "get_chat_member"
          /\ tk.code = last.code
          /\ tk.title # Get(MOVIES, tk.code)

\* movies is all of the snapshot f with its keys in upper case if f is a
\* readable JSON object, and the three built-in entries and nothing else if
\* f is missing or unreadable.
LoadedWhole(movies, f) ==
    IF f.kind = "json"
    THEN /\ DOMAIN movies = {upper(k) : k \in DOMAIN f.data}
         /\ \A k \in DOMAIN f.data : movies[upper(k)] = f.data[k]
    ELSE /\ DOMAIN movies = {<<"A">>, <<"B">>, <<"C">>}
         /\ movies[<<"A">>] = <<"F">>
         /\ movies[<<"B">>] = <<"N">>
         /\ movies[<<"C">>] = <<"M">>

\* C17: what load_movies returns, at the first start and at every later one,
\* is the whole snapshot with upper-case keys or exactly the three defaults,
\* and the start raises nothing.
C17_LoadAllOrNothing ==
    /\ LoadedWhole(MOVIES, file)
    /\ [][(last'.h = "init" /\ last'.first)
          => /\ LoadedWhole(MOVIES', file')
             /\ file' = file
             /\ ~last'.raised]_vars

\* C17: the process was started again, found the snapshot unreadable and
\* began with the three defaults.
C17_Witness ==
    /\ last.h = "init" /\ last.first
    /\ file = BadFile
    /\ MOVIES = DefaultMovies

\* A code is captured for exactly those who are asked for a title.
ScratchIffTitleAwaited ==
    \A u \in Users :
       u \in DOMAIN ADMIN_DATA <=> Get(ADMIN_STATES, u) = "add_wait_title"

\* C18: in every state, also while handlers are suspended at an await,
\* ADMIN_DATA has an entry for a user exactly if ADMIN_STATES of that user is
\* add_wait_title; so the title step always finds the captured code, and the
\* "add movie" and "delete movie" buttons leave ADMIN_DATA of the
\* administrator empty.
C18_ScratchMatchesMode ==
    /\ ScratchIffTitleAwaited
    /\ [][/\ ScratchIffTitleAwaited'
          /\ \A raw \in Texts :
                (TextBegins(ADMIN_ID, raw)
                   /\ Get(ADMIN_STATES, ADMIN_ID) = "add_wait_title")
                => /\ ~last'.raised
                   /\ last'.code = ADMIN_DATA[ADMIN_ID]
          /\ (last'.h \in {"admin_add_movie", "admin_delete_movie"}
                /\ last'.u = ADMIN_ID)
             => ADMIN_ID \notin DOMAIN ADMIN_DATA']_vars

\* C18: while the reply of the delete dialogue is still awaited the
\* administrator has chosen "add movie" and sent a code.
C18_Witness ==
    /\ Get(ADMIN_STATES, ADMIN_ID) = "add_wait_title"
    /\ ADMIN_ID \in DOMAIN ADMIN_DATA
    /\ \E tk \in Waiting : tk.pc = "answer" /\ tk.u = ADMIN_ID

\* Whoever has a code pending has pressed the activation button or is the
\* administrator.
PendingOnlyPastGate ==
    \A u \in DOMAIN PENDING_CODES : u \in READY_USERS \/ u = ADMIN_ID

\* C19: in every state PENDING_CODES has entries only for users who are in
\* READY_USERS or are the administrator; and no step of any handler, the
\* confirm handler included, sends or carries a title for a user who is
\* neither.
C19_NoTitleBeforeActivation ==
    /\ PendingOnlyPastGate
    /\ [][/\ PendingOnlyPastGate'
          /\ (last'.reply = "title" \/ Truthy(last'.title))
             => (last'.u \in READY_USERS \/ last'.u = ADMIN_ID)
          /\ \A tk \in BagToSet(tasks') :
                Truthy(tk.title) => (tk.u \in READY_USERS' \/ tk.u = ADMIN_ID)]_vars

\* C19: somebody who never pressed the activation button pressed the confirm
\* button while subscribed, with movies stored, and got the generic message.
C19_Witness ==
    /\ last.h = "check_subs" /\ last.u # ADMIN_ID
    /\ last.u \notin READY_USERS
    /\ last.subscribed = "yes"
    /\ last.reply = "send_a_code"
    /\ last.title = None
    /\ MOVIES # EmptyDict

\* C20: a reply that cannot be delivered does not change the transition.
\* When the message.answer of the delete dialogue returns or raises, the
\* administrator's entries of ADMIN_STATES and ADMIN_DATA are removed; when
\* the edit_text of a confirm that found the user subscribed with a code
\* pending returns or raises, the user's entry of PENDING_CODES is removed;
\* and nothing else of the session or the store changes.
C20_SendFailureNeutral ==
    [][\A tk \in Waiting :
          (tk.pc \in {"answer", "edit_text"}
             /\ CopiesIn(tk, tasks') < CopiesIn(tk, tasks))
          => /\ UNCHANGED <<READY_USERS, store>>
             /\ IF tk.pc = "answer"
                THEN /\ ADMIN_STATES' = Pop(ADMIN_STATES, tk.u)
                     /\ ADMIN_DATA' = Pop(ADMIN_DATA, tk.u)
                     /\ PENDING_CODES' = PENDING_CODES
                ELSE /\ PENDING_CODES' = Pop(PENDING_CODES, tk.u)
                     /\ UNCHANGED <<ADMIN_STATES, ADMIN_DATA>>]_vars

====
